---- MODULE Spec2Model ----
(***************************************************************************)
(* Schedule-to-state resolution engine of renLD: the position simulator    *)
(* (src/services/trainSimulator.ts), the service resolver and the loader   *)
(* (gtfsParser.ts, kept as src/unnamed/part_001), and the application that *)
(* drives them (App.tsx, kept as src/unnamed/part_000).                    *)
(*                                                                         *)
(* Conventions of the model                                                *)
(*  - an optional value (`T | undefined`) is a sequence: <<>> for          *)
(*    undefined, <<v>> for the value v;                                    *)
(*  - a JavaScript number that the code computes by a division is kept as  *)
(*    an exact fraction [n, d] (floating point rounding is not modelled);  *)
(*  - stop identifiers are the naturals 1, 2, ...; seconds are naturals,   *)
(*    NaN is the distinguished value NaN.                                  *)
(***************************************************************************)
EXTENDS Integers, Sequences, FiniteSets, TLC

\* Longest stop-time sequence of the varied trip "t1".
MaxLen == 3
\* Largest arrival/departure seconds of the varied trip "t1".
MaxT == 2

\* The not-a-number result of timeToSeconds on unparsable text.
NaN == -1

Absent == <<>>
Some(v) == <<v>>
Val(o) == o[1]

\* Map.prototype.get on a keyed table held as a function.
MapGet(m, k) == IF k \in DOMAIN m THEN Some(m[k]) ELSE Absent

\* Map.prototype.get on the trip table, held as the sequence of its values
\* in insertion order (the keys are the trip_id fields, each at most once).
TripGet(trips, id) ==
    IF \E k \in 1..Len(trips) : trips[k].trip_id = id
    THEN Some(trips[CHOOSE k \in 1..Len(trips) : trips[k].trip_id = id])
    ELSE Absent

\* `x || 0` on a number: NaN, undefined and 0 are falsy.
OrZero(x) == IF x = NaN \/ x = 0 THEN 0 ELSE x

\* An exact number as a fraction.
Num(x) == [n |-> x, d |-> 1]

\* Faulty variant of interpolate: start + end * fraction, the difference forgotten.
interpolate_nodifference(start, end, fraction) ==
    [n |-> start * fraction.d + end * fraction.n, d |-> fraction.d]

\* start + (end - start) * fraction, fraction = [n, d] with d > 0.
interpolate(start, end, fraction) ==
    [n |-> start * fraction.d + (end - start) * fraction.n, d |-> fraction.d]

\* Forward azimuth in degrees, [0, 360). Exact where the two points share a
\* meridian (0 or 180; atan2(0, 0) = 0 for equal points); otherwise sin(dLon)
\* fixes the half circle and the value stands for it: 90 for (0, 180), 270
\* for (180, 360).
getBearing(lat1, lon1, lat2, lon2) ==
    IF lon2 = lon1 THEN (IF lat2 >= lat1 THEN 0 ELSE 180)
    ELSE IF lon2 > lon1 THEN 90 ELSE 270

\* What one iteration of the loop over activeTripIds does.
None == [kind |-> "none"]
Throw == [kind |-> "throw"]
Push(p) == [kind |-> "push", pos |-> p]

\* A property read `o.f`: a TypeError when o is undefined, else the
\* continuation.
Deref(o, outcome) == IF o = Absent THEN Throw ELSE outcome

\* route: gtfs.routes.get(gtfs.trips.get(tripId)?.route_id || '')
RouteOf(gtfs, tripId) ==
    LET trip == TripGet(gtfs.trips, tripId)
        rid == IF trip = Absent THEN "" ELSE Val(trip).route_id
    IN  MapGet(gtfs.routes, rid)

\* The object pushed in case 1.
AtStopPosition(gtfs, tripId, current, next, stopInfo) ==
    [trip_id |-> tripId,
     lat |-> Num(Val(stopInfo).stop_lat),
     lng |-> Num(Val(stopInfo).stop_lon),
     bearing |-> 0,
     status |-> "AT_STOP",
     nextStop |-> MapGet(gtfs.stops, next.stop_id),
     prevStop |-> MapGet(gtfs.stops, current.stop_id),
     route |-> RouteOf(gtfs, tripId),
     trip |-> TripGet(gtfs.trips, tripId)]

\* Faulty variant of AtStop: nextStop is the stop the train is at.
AtStop_samenext(gtfs, tripId, current, next) ==
    LET stopInfo == MapGet(gtfs.stops, current.stop_id) IN
    IF stopInfo # Absent
    THEN Deref(stopInfo, Push(AtStopPosition(gtfs, tripId, current, current, stopInfo)))
    ELSE None

\* Faulty variant of AtStop: the position is pushed only when the trip resolves.
AtStop_needstrip(gtfs, tripId, current, next) ==
    LET stopInfo == MapGet(gtfs.stops, current.stop_id) IN
    IF stopInfo # Absent /\ TripGet(gtfs.trips, tripId) # Absent
    THEN Deref(stopInfo, Push(AtStopPosition(gtfs, tripId, current, next, stopInfo)))
    ELSE None

\* Faulty variant of AtStop: the position is pushed only when the next stop resolves.
AtStop_neednext(gtfs, tripId, current, next) ==
    LET stopInfo == MapGet(gtfs.stops, current.stop_id) IN
    IF stopInfo # Absent /\ MapGet(gtfs.stops, next.stop_id) # Absent
    THEN Deref(stopInfo, Push(AtStopPosition(gtfs, tripId, current, next, stopInfo)))
    ELSE None

\* Faulty variant of AtStop: prevStop and nextStop are swapped.
AtStop_swapped(gtfs, tripId, current, next) ==
    LET stopInfo == MapGet(gtfs.stops, current.stop_id) IN
    IF stopInfo # Absent
    THEN Deref(stopInfo, Push(AtStopPosition(gtfs, tripId, next, current, stopInfo)))
    ELSE None

\* Case 1: the train is at stop `current`; nothing is pushed when the stop
\* does not resolve.
AtStop(gtfs, tripId, current, next) ==
    LET stopInfo == MapGet(gtfs.stops, current.stop_id) IN
    IF stopInfo # Absent
    THEN Deref(stopInfo, Push(AtStopPosition(gtfs, tripId, current, next, stopInfo)))
    ELSE None

\* Case 2: the train is between `current` and `next`.
Moving(gtfs, tripId, current, next, currentSeconds) ==
    LET stopA == MapGet(gtfs.stops, current.stop_id)
        stopB == MapGet(gtfs.stops, next.stop_id)
    IN
    IF stopA # Absent /\ stopB # Absent
    THEN LET duration == OrZero(next.arrival_seconds) - OrZero(current.departure_seconds)
             elapsed == currentSeconds - OrZero(current.departure_seconds)
             fraction == [n |-> elapsed, d |-> duration]
             a == Val(stopA)
             b == Val(stopB)
         IN  Deref(stopA, Deref(stopB,
              Push([trip_id |-> tripId,
                    lat |-> interpolate(a.stop_lat, b.stop_lat, fraction),
                    lng |-> interpolate(a.stop_lon, b.stop_lon, fraction),
                    bearing |-> getBearing(a.stop_lat, a.stop_lon, b.stop_lat, b.stop_lon),
                    status |-> "MOVING",
                    nextStop |-> stopB,
                    prevStop |-> stopA,
                    route |-> RouteOf(gtfs, tripId),
                    trip |-> TripGet(gtfs.trips, tripId)])))
    ELSE None

\* Faulty variant of IsAtStop: both comparisons are strict.
IsAtStop_strict(times, i, currentSeconds) ==
    /\ currentSeconds > OrZero(times[i].arrival_seconds)
    /\ currentSeconds < OrZero(times[i].departure_seconds)

\* The at-stop test of index i.
IsAtStop(times, i, currentSeconds) ==
    /\ currentSeconds >= OrZero(times[i].arrival_seconds)
    /\ currentSeconds <= OrZero(times[i].departure_seconds)

\* Faulty variant of IsMoving: the test against the next arrival is missing.
IsMoving_noupper(times, i, currentSeconds) ==
    currentSeconds > OrZero(times[i].departure_seconds)

\* The in-transit test of the segment (i, i+1).
IsMoving(times, i, currentSeconds) ==
    /\ currentSeconds > OrZero(times[i].departure_seconds)
    /\ currentSeconds < OrZero(times[i + 1].arrival_seconds)

\* Faulty variant of FindSegment: the scan runs from the last segment downwards.
RECURSIVE ScanDown(_, _, _, _, _)
ScanDown(gtfs, tripId, times, currentSeconds, i) ==
    IF i < 1 THEN None
    ELSE IF IsAtStop(times, i, currentSeconds)
         THEN AtStop(gtfs, tripId, times[i], times[i + 1])
    ELSE IF IsMoving(times, i, currentSeconds)
         THEN Moving(gtfs, tripId, times[i], times[i + 1], currentSeconds)
    ELSE ScanDown(gtfs, tripId, times, currentSeconds, i - 1)

FindSegment_downwards(gtfs, tripId, times, currentSeconds, i) ==
    ScanDown(gtfs, tripId, times, currentSeconds, Len(times) - 1)

\* for (let i = 0; i < times.length - 1; i++): indices are 1-based here, so
\* i runs over 1 .. Len(times) - 1; both cases end the loop with `break`.
RECURSIVE FindSegment(_, _, _, _, _)
FindSegment(gtfs, tripId, times, currentSeconds, i) ==
    IF i > Len(times) - 1 THEN None
    ELSE IF IsAtStop(times, i, currentSeconds)
         THEN AtStop(gtfs, tripId, times[i], times[i + 1])
    ELSE IF IsMoving(times, i, currentSeconds)
         THEN Moving(gtfs, tripId, times[i], times[i + 1], currentSeconds)
    ELSE FindSegment(gtfs, tripId, times, currentSeconds, i + 1)

\* Faulty variant of TripOutcome: the `!times` half of the first guard is missing.
TripOutcome_unguarded(gtfs, tripId, currentSeconds) ==
    LET times == MapGet(gtfs.stopTimes, tripId) IN
    Deref(times,
          IF Len(Val(times)) < 2 THEN None
          ELSE LET firstStop == Val(times)[1]
                   lastStop == Val(times)[Len(Val(times))]
               IN  IF currentSeconds < OrZero(firstStop.departure_seconds) THEN None
                   ELSE IF currentSeconds > OrZero(lastStop.arrival_seconds) THEN None
                   ELSE FindSegment(gtfs, tripId, Val(times), currentSeconds, 1))

\* Faulty variant of TripOutcome: the two window tests are missing.
TripOutcome_nowindow(gtfs, tripId, currentSeconds) ==
    LET times == MapGet(gtfs.stopTimes, tripId) IN
    IF times = Absent THEN None
    ELSE IF Len(Val(times)) < 2 THEN None
    ELSE FindSegment(gtfs, tripId, Val(times), currentSeconds, 1)

\* The body of `for (const tripId of activeTripIds)`.
TripOutcome(gtfs, tripId, currentSeconds) ==
    LET times == MapGet(gtfs.stopTimes, tripId) IN
    IF times = Absent THEN None
    ELSE Deref(times,
          IF Len(Val(times)) < 2 THEN None
          ELSE LET firstStop == Val(times)[1]
                   lastStop == Val(times)[Len(Val(times))]
               IN  IF currentSeconds < OrZero(firstStop.departure_seconds) THEN None
                   ELSE IF currentSeconds > OrZero(lastStop.arrival_seconds) THEN None
                   ELSE FindSegment(gtfs, tripId, Val(times), currentSeconds, 1))

RECURSIVE TripLoop(_, _, _, _, _)
TripLoop(gtfs, activeTripIds, currentSeconds, k, positions) ==
    IF k > Len(activeTripIds) THEN [threw |-> FALSE, value |-> positions]
    ELSE LET o == TripOutcome(gtfs, activeTripIds[k], currentSeconds) IN
         IF o.kind = "throw" THEN [threw |-> TRUE, value |-> <<>>]
         ELSE TripLoop(gtfs, activeTripIds, currentSeconds, k + 1,
                       IF o.kind = "push" THEN Append(positions, o.pos) ELSE positions)

\* Faulty variant of calculateTrainPositions: the loop runs over every trip that has
\* stop-times.
calculateTrainPositions_alltrips(gtfs, activeTripIds, currentSeconds) ==
    TripLoop(gtfs, <<"t1", "t2">>, currentSeconds, 1, <<>>)

\* The call: either it throws, or it returns the list `value`.
calculateTrainPositions(gtfs, activeTripIds, currentSeconds) ==
    TripLoop(gtfs, activeTripIds, currentSeconds, 1, <<>>)

(***************************************************************************)
(* The service resolver.  Text is a sequence of characters: the digits are *)
(* 0..9 and NonDigit is any character parseInt stops at.                   *)
(***************************************************************************)
NonDigit == 10

\* Number.prototype.toString of a natural.
RECURSIVE NumberToString(_)
NumberToString(n) == IF n < 10 THEN <<n>> ELSE Append(NumberToString(n \div 10), n % 10)

\* padStart(2, '0')
padStart2(str) == IF Len(str) < 2 THEN <<0>> \o str ELSE str

\* parseInt: the value of the longest prefix of digits, NaN when it is empty.
RECURSIVE DigitsValue(_, _, _)
DigitsValue(str, i, acc) ==
    IF i > Len(str) \/ str[i] > 9 THEN acc
    ELSE DigitsValue(str, i + 1, acc * 10 + str[i])

parseInt(str) ==
    IF Len(str) = 0 \/ str[1] > 9 THEN NaN ELSE DigitsValue(str, 1, 0)

\* Faulty variant of JsLe: the comparison is strict.
JsLe_strict(a, b) == a # NaN /\ b # NaN /\ a < b

\* a >= b and a <= b on numbers: false when either is NaN.
JsGe(a, b) == a # NaN /\ b # NaN /\ a >= b
JsLe(a, b) == a # NaN /\ b # NaN /\ a <= b

days == <<"sunday", "monday", "tuesday", "wednesday", "thursday", "friday", "saturday">>

\* Step 1 of the resolver: the service ids the weekly rules activate.
ByRule(calendar, dateInt, todayStr) ==
    { calendar[k].service_id : k \in
        { k \in DOMAIN calendar :
            /\ JsGe(dateInt, parseInt(calendar[k].start_date))
            /\ JsLe(dateInt, parseInt(calendar[k].end_date))
            /\ calendar[k][todayStr] = "1" } }

\* Faulty variant of ApplyExceptions: the `d.date === dateStr` test is missing.
RECURSIVE ApplyExceptions_anydate(_, _, _, _)
ApplyExceptions_anydate(dates, dateStr, i, member) ==
    IF i > Len(dates) THEN member
    ELSE ApplyExceptions_anydate(dates, dateStr, i + 1,
            IF dates[i].exception_type = "1" THEN TRUE
            ELSE IF dates[i].exception_type = "2" THEN FALSE
            ELSE member)

\* Faulty variant of ApplyExceptions: the entries are applied from the last
\* to the first.
RECURSIVE ApplyExceptions_reversed(_, _, _, _)
ApplyExceptions_reversed(dates, dateStr, i, member) ==
    IF i > Len(dates) THEN member
    ELSE ApplyExceptions_reversed(dates, dateStr, i + 1,
            IF dates[Len(dates) + 1 - i].date = dateStr
            THEN IF dates[Len(dates) + 1 - i].exception_type = "1" THEN TRUE
                 ELSE IF dates[Len(dates) + 1 - i].exception_type = "2" THEN FALSE
                 ELSE member
            ELSE member)

\* dates.forEach(d => ...) on one service: whether the service id is in
\* activeServiceIds after the entries from index i on, given that it is
\* (`member`) before them.
RECURSIVE ApplyExceptions(_, _, _, _)
ApplyExceptions(dates, dateStr, i, member) ==
    IF i > Len(dates) THEN member
    ELSE ApplyExceptions(dates, dateStr, i + 1,
            IF dates[i].date = dateStr
            THEN IF dates[i].exception_type = "1" THEN TRUE
                 ELSE IF dates[i].exception_type = "2" THEN FALSE
                 ELSE member
            ELSE member)

\* Faulty variant of ActiveServiceIds: the exceptions are applied to the
\* services of the weekly rules only.
ActiveServiceIds_rulesonly(calendarDates, byRule, dateStr) ==
    { sid \in byRule :
        IF sid \in DOMAIN calendarDates
        THEN ApplyExceptions(calendarDates[sid], dateStr, 1, TRUE)
        ELSE TRUE }

\* Step 2: gtfs.calendarDates.forEach((dates, serviceId) => ...). The keys of
\* the Map are distinct and the entries of a key add or delete that key only,
\* so the set after the loop is decided key by key.
ActiveServiceIds(calendarDates, byRule, dateStr) ==
    { sid \in byRule \cup DOMAIN calendarDates :
        IF sid \in DOMAIN calendarDates
        THEN ApplyExceptions(calendarDates[sid], dateStr, 1, sid \in byRule)
        ELSE TRUE }

\* Faulty variant of ActiveTripIds: the `activeServiceIds.has` test is missing.
ActiveTripIds_nofilter(trips, active, k) ==
    [j \in 1..Len(trips) |-> trips[j].trip_id]

\* gtfs.trips.forEach: the trip ids of the active services, in table order.
RECURSIVE ActiveTripIds(_, _, _)
ActiveTripIds(trips, active, k) ==
    IF k > Len(trips) THEN <<>>
    ELSE (IF trips[k].service_id \in active THEN <<trips[k].trip_id>> ELSE <<>>)
         \o ActiveTripIds(trips, active, k + 1)

\* Faulty variant of getActiveTripsForToday: the `if (gtfs.calendarDates)` guard is
\* missing.
getActiveTripsForToday_unguarded(gtfs, date) ==
    LET todayStr == days[date.day + 1]
        dateStr == NumberToString(date.fullYear) \o padStart2(NumberToString(date.month + 1))
                     \o padStart2(NumberToString(date.date))
        byRule == ByRule(gtfs.calendar, parseInt(dateStr), todayStr)
    IN  IF gtfs.calendarDates = Absent THEN [threw |-> TRUE, value |-> <<>>]
        ELSE [threw |-> FALSE,
              value |-> ActiveTripIds(gtfs.trips,
                          ActiveServiceIds(Val(gtfs.calendarDates), byRule, dateStr), 1)]

\* The call: either it throws, or it returns the list `value`. `date` is the
\* Date object, read through getDay, getFullYear, getMonth and getDate.
getActiveTripsForToday(gtfs, date) ==
    LET todayStr == days[date.day + 1]
        yyyy == NumberToString(date.fullYear)
        mm == padStart2(NumberToString(date.month + 1))
        dd == padStart2(NumberToString(date.date))
        dateInt == parseInt(yyyy \o mm \o dd)
        dateStr == yyyy \o mm \o dd
        byRule == ByRule(gtfs.calendar, dateInt, todayStr)
        activeServiceIds ==
            IF gtfs.calendarDates # Absent
            THEN ActiveServiceIds(Val(gtfs.calendarDates), byRule, dateStr)
            ELSE byRule
    IN  [threw |-> FALSE, value |-> ActiveTripIds(gtfs.trips, activeServiceIds, 1)]

(***************************************************************************)
(* The time codec and the loader.  A time text "HH:MM:SS" is a sequence of *)
(* digits and Colon characters; the tables of the archive are sequences of *)
(* rows, each row a record of its columns.                                 *)
(***************************************************************************)
Colon == 11

\* String.prototype.split(':')
RECURSIVE SplitFrom(_, _, _)
SplitFrom(str, i, cur) ==
    IF i > Len(str) THEN <<cur>>
    ELSE IF str[i] = Colon THEN <<cur>> \o SplitFrom(str, i + 1, <<>>)
    ELSE SplitFrom(str, i + 1, Append(cur, str[i]))
split(str) == SplitFrom(str, 1, <<>>)

\* Faulty variant of timeToSeconds: the hours are taken modulo 24.
timeToSeconds_wrapped(timeStr) ==
    IF Len(timeStr) = 0 THEN 0
    ELSE LET parts == split(timeStr)
             h == parseInt(parts[1])
             m == IF Len(parts) >= 2 THEN parseInt(parts[2]) ELSE NaN
             s == IF Len(parts) >= 3 /\ Len(parts[3]) > 0 THEN parseInt(parts[3]) ELSE 0
         IN  IF h = NaN \/ m = NaN \/ s = NaN THEN NaN
             ELSE (h % 24) * 3600 + m * 60 + s

\* "HH:MM:SS" to seconds from midnight: 0 for an empty text, NaN when a part
\* is not a number, no upper limit on the hours.
timeToSeconds(timeStr) ==
    IF Len(timeStr) = 0 THEN 0
    ELSE LET parts == split(timeStr)
             h == parseInt(parts[1])
             m == IF Len(parts) >= 2 THEN parseInt(parts[2]) ELSE NaN
             s == IF Len(parts) >= 3 /\ Len(parts[3]) > 0 THEN parseInt(parts[3]) ELSE 0
         IN  IF h = NaN \/ m = NaN \/ s = NaN THEN NaN
             ELSE h * 3600 + m * 60 + s

\* Number(str) on a text of digits: 0 for the empty text.
Number(str) ==
    IF Len(str) = 0 THEN 0
    ELSE IF \E i \in 1..Len(str) : str[i] > 9 THEN NaN
    ELSE DigitsValue(str, 1, 0)

\* toLocaleTimeString('en-GB', {timeZone: 'Europe/Madrid', hour12: false}) of
\* the wall clock: "HH:MM:SS".
TimeText(h, m, s) ==
    padStart2(NumberToString(h)) \o <<Colon>> \o padStart2(NumberToString(m))
        \o <<Colon>> \o padStart2(NumberToString(s))

\* Seconds from midnight in Madrid, read off the wall clock.
getCurrentSeconds(now) ==
    LET madridTime == TimeText(now.h, now.m, now.s)
        hms == [i \in 1..Len(split(madridTime)) |-> Number(split(madridTime)[i])]
    IN  hms[1] * 3600 + hms[2] * 60 + hms[3]

\* parseFloat on a text of digits (the coordinates of the modelled archives
\* are whole degrees).
parseFloat(str) == parseInt(str)

\* rows.forEach(r => map.set(r[key], r)): the last row of a key stays.
KeyBy(rows, key) ==
    [k \in {rows[i][key] : i \in 1..Len(rows)} |->
        rows[CHOOSE i \in 1..Len(rows) :
                /\ rows[i][key] = k
                /\ \A j \in 1..Len(rows) : rows[j][key] = k => j <= i]]

\* The rows of one key, in file order.
RowsOf(rows, key, k) == SelectSeq(rows, LAMBDA r : r[key] = k)

\* calendarDatesRaw.forEach: the rows grouped by service_id.
GroupBy(rows, key) ==
    [k \in {rows[i][key] : i \in 1..Len(rows)} |-> RowsOf(rows, key, k)]

\* tripsRaw.forEach(t => trips.set(t.trip_id, t)) on the trip table held in
\* insertion order: a repeated key replaces the value in place.
RECURSIVE TripTable(_, _, _)
TripTable(rows, i, table) ==
    IF i > Len(rows) THEN table
    ELSE TripTable(rows, i + 1,
            IF TripGet(table, rows[i].trip_id) = Absent THEN Append(table, rows[i])
            ELSE [k \in 1..Len(table) |->
                    IF table[k].trip_id = rows[i].trip_id THEN rows[i] ELSE table[k]])

\* The `processed` StopTime of a row: the row's columns, the sequence number
\* parsed and the two times in seconds.
Processed(st) ==
    [stop_sequence |-> parseInt(st.stop_sequence),
     arrival_seconds |-> timeToSeconds(st.arrival_time),
     departure_seconds |-> timeToSeconds(st.departure_time)] @@ st

\* The comparator (a, b) => a.stop_sequence - b.stop_sequence: a NaN
\* difference counts as 0.
Compare(a, b) ==
    IF a.stop_sequence = NaN \/ b.stop_sequence = NaN THEN 0
    ELSE a.stop_sequence - b.stop_sequence

\* A stable sort: x goes behind every element it does not precede.
RECURSIVE InsertSorted(_, _, _)
InsertSorted(sorted, x, i) ==
    IF i > Len(sorted) THEN Append(sorted, x)
    ELSE IF Compare(x, sorted[i]) < 0
         THEN SubSeq(sorted, 1, i - 1) \o <<x>> \o SubSeq(sorted, i, Len(sorted))
         ELSE InsertSorted(sorted, x, i + 1)
RECURSIVE StableSort(_, _, _)
StableSort(list, i, sorted) ==
    IF i > Len(list) THEN sorted
    ELSE StableSort(list, i + 1, InsertSorted(sorted, list[i], 1))

AnyOrder(list) ==
    {[i \in 1..Len(list) |-> list[p[i]]] :
        p \in {q \in [1..Len(list) -> 1..Len(list)] :
                 \A i, j \in 1..Len(list) : q[i] = q[j] => i = j}}

\* The comparator orders the list consistently unless a NaN sits between two
\* different numbers.
Consistent(list) ==
    \/ \A i \in 1..Len(list) : list[i].stop_sequence # NaN
    \/ \A i, j \in 1..Len(list) :
         (list[i].stop_sequence # NaN /\ list[j].stop_sequence # NaN)
            => list[i].stop_sequence = list[j].stop_sequence

\* Faulty variant of SortOutcomes: the list is left in file order.
SortOutcomes_unsorted(list) == {list}

\* times.sort(comparator): the stable order, or, the comparator being
\* inconsistent, an order the engine is free to choose.
SortOutcomes(list) ==
    IF Consistent(list) THEN {StableSort(list, 1, <<>>)} ELSE AnyOrder(list)

\* The stop-time table: the rows of the known trips grouped by trip_id, then
\* each list sorted. The set holds every table the sorts can give.
StopTimeTables(rows, trips) ==
    LET kept == SelectSeq(rows, LAMBDA st : TripGet(trips, st.trip_id) # Absent)
        processed == [i \in 1..Len(kept) |-> Processed(kept[i])]
        grouped == GroupBy(processed, "trip_id")
    IN  {f \in [DOMAIN grouped -> UNION {SortOutcomes(grouped[t]) : t \in DOMAIN grouped}] :
            \A t \in DOMAIN grouped : f[t] \in SortOutcomes(grouped[t])}

\* The stores parseGTFSZip can return for an archive.
parseGTFSZip(file) ==
    LET trips == TripTable(file.trips, 1, <<>>)
        stops == KeyBy([i \in 1..Len(file.stops) |->
                          [stop_lat |-> parseFloat(file.stops[i].stop_lat),
                           stop_lon |-> parseFloat(file.stops[i].stop_lon)] @@ file.stops[i]],
                       "stop_id")
    IN  {[stops |-> stops,
          routes |-> KeyBy(file.routes, "route_id"),
          trips |-> trips,
          stopTimes |-> f,
          calendar |-> KeyBy(file.calendar, "service_id"),
          calendarDates |-> Some(GroupBy(file.calendar_dates, "service_id"))] :
            f \in StopTimeTables(file.stop_times, trips)}

(***************************************************************************)
(* State: the store, the active-trip list and the Position list the        *)
(* application holds (useState in App), the latest call and whether it     *)
(* raised; then the archive the user loads, the wall clock in Madrid, the  *)
(* selection, and the simulation effect: what made it due again, whether   *)
(* its interval is set, and what ran the latest tick.                      *)
(***************************************************************************)
VARIABLES gtfsData, activeTrips, positions, call, fault,
          file, clock, selectedTrain, selectedStation,
          pendingEffect, interval, lastTick

appVars == <<file, clock, selectedTrain, selectedStation, pendingEffect, interval, lastTick>>

vars == <<gtfsData, activeTrips, positions, call, fault,
          file, clock, selectedTrain, selectedStation,
          pendingEffect, interval, lastTick>>

\* null
Null == <<>>

\* The application once the store is loaded, nothing selected, no tick yet.
Unselected ==
    /\ file = Null
    /\ clock = [day |-> 0, h |-> 0, m |-> 0, s |-> 0]
    /\ selectedTrain = Null
    /\ selectedStation = Null
    /\ pendingEffect = "none"
    /\ interval = FALSE
    /\ lastTick = "none"

\* Latest calendar day the resolver is asked about, counted from 2023-12-31.
MaxDay == 3

\* Longest exception list of a service.
MaxExc == 2

\* The Date object of day k: 2023-12-31 is a Sunday, day k >= 1 is January k
\* of 2024 (getMonth counts from 0).
DayAt(k) ==
    IF k = 0 THEN [fullYear |-> 2023, month |-> 11, date |-> 31, day |-> 0]
    ELSE [fullYear |-> 2024, month |-> 0, date |-> k, day |-> k % 7]

Stop(k) == [stop_id |-> k, stop_lat |-> 39 + k, stop_lon |-> (k \div 3) - 3]
StopTable(S) == [k \in S |-> Stop(k)]

StopTime(k, arr, dep) ==
    [stop_id |-> k, stop_sequence |-> k, arrival_seconds |-> arr, departure_seconds |-> dep]

Trip(id, rid, sid) == [trip_id |-> id, route_id |-> rid, service_id |-> sid]

Route(rid) == [route_id |-> rid]

\* A stop-time sequence from the list of its times <<arr1, dep1, arr2, ...,
\* arrN>>: the last departure, which no code reads, equals the last arrival.
TimesOf(flat) ==
    [k \in 1..((Len(flat) + 1) \div 2) |->
        StopTime(k, flat[2 * k - 1], IF 2 * k <= Len(flat) THEN flat[2 * k] ELSE flat[2 * k - 1])]

\* Every such list for n stop-times, and those that never decrease.
FlatTimes(n) == IF n = 0 THEN {<<>>} ELSE [1..(2 * n - 1) -> 0..MaxT]
Monotone(flat) == \A k \in 1..(Len(flat) - 1) : flat[k] <= flat[k + 1]

\* Trip "t2": two stops, an unparsable first arrival.
T2Times == <<StopTime(1, NaN, 0), StopTime(2, 2, 2)>>

Flags(on) == [d \in {days[k] : k \in 1..7} |-> IF d \in on THEN "1" ELSE "0"]
EveryDay == {days[k] : k \in 1..7}
DateText(k) ==
    LET d == DayAt(k) IN
    NumberToString(d.fullYear) \o padStart2(NumberToString(d.month + 1))
        \o padStart2(NumberToString(d.date))

Calendar(sid, start, end, on) ==
    [service_id |-> sid, start_date |-> start, end_date |-> end] @@ Flags(on)

\* The rule of service "B": every day of the modelled days.
RuleB == Calendar("B", DateText(0), <<2, 0, 2, 4, 0, 1, 3, 1>>, EveryDay)

\* The stores that vary the schedule of trip "t1": every trip runs on
\* service "B".
ScheduleStore(t1times, stopIds, trips, routes) ==
    [stops |-> StopTable(stopIds),
     routes |-> routes,
     trips |-> trips,
     stopTimes |-> [t \in {"t1", "t2"} |-> IF t = "t1" THEN t1times ELSE T2Times],
     calendar |-> [s \in {"B"} |-> RuleB],
     calendarDates |-> Some(<<>>)]

AllTrips == <<Trip("t2", "r1", "B"), Trip("t1", "r1", "B"), Trip("t0", "r1", "B")>>
NoT1 == <<Trip("t2", "r1", "B"), Trip("t0", "r1", "B")>>
\* The trip and route tables: all present, the route missing, the trip
\* missing, the trip missing and a route keyed by the empty string.
Lookups == {<<AllTrips, [r \in {"r1"} |-> Route(r)]>>,
            <<AllTrips, <<>> >>,
            <<NoT1, [r \in {"r1"} |-> Route(r)]>>,
            <<NoT1, [r \in {"r1", ""} |-> Route(r)]>>}

ActiveLists ==
    {<<>>, <<"t1">>, <<"t2">>, <<"t0">>, <<"t9">>, <<"t1", "t2">>, <<"t9", "t1">>, <<"t1", "t1">>}

\* Any times, every reference resolves.
InitAnyTimes ==
    /\ \E n \in 0..MaxLen : \E flat \in FlatTimes(n) :
         gtfsData = ScheduleStore(TimesOf(flat), 1..MaxLen, AllTrips,
                                  [r \in {"r1"} |-> Route(r)])
    /\ activeTrips = <<"t2", "t1", "t0">>

\* Well-formed times, any of the stops, the trip or the route missing.
InitAnyLookups ==
    /\ \E n \in 0..MaxLen : \E flat \in {f \in FlatTimes(n) : Monotone(f)} :
       \E S \in SUBSET (1..MaxLen) : \E l \in Lookups :
         gtfsData = ScheduleStore(TimesOf(flat), S, l[1], l[2])
    /\ activeTrips = <<"t2", "t1", "t0">>

\* One well-formed schedule, any active-trip list ("t9" is in no table).
InitAnyActive ==
    /\ gtfsData = ScheduleStore(TimesOf(<<0, 0, 1, 1, 2>>), 1..MaxLen, AllTrips,
                                [r \in {"r1"} |-> Route(r)])
    /\ activeTrips \in ActiveLists

InitSim ==
    /\ InitAnyTimes \/ InitAnyLookups \/ InitAnyActive
    /\ positions = <<>>
    /\ call = [op |-> "none", arg |-> 0]
    /\ fault = FALSE
    /\ Unselected

\* The simulation tick: positions := calculateTrainPositions(...), with the
\* seconds the clock gives.
Tick ==
    \E currentSeconds \in 0..(MaxT + 1) :
      \E r \in {calculateTrainPositions(gtfsData, activeTrips, currentSeconds)} :
      /\ call' = [op |-> "calculateTrainPositions", arg |-> currentSeconds]
      /\ fault' = r.threw
      /\ positions' = IF r.threw THEN positions ELSE r.value
      /\ UNCHANGED <<gtfsData, activeTrips>>
      /\ UNCHANGED appVars

\* processData on a fresh load: activeTrips := getActiveTripsForToday(...).
Resolve ==
    /\ call.op = "none"
    /\ \E k \in 0..MaxDay :
         \E r \in {getActiveTripsForToday(gtfsData, DayAt(k))} :
         /\ call' = [op |-> "getActiveTripsForToday", arg |-> k]
         /\ fault' = r.threw
         /\ activeTrips' = IF r.threw THEN activeTrips ELSE r.value
         /\ UNCHANGED <<gtfsData, positions>>
         /\ UNCHANGED appVars

\* The stores that vary the calendar: trips "t1" and "t3" run on service "A",
\* "t2" on "B", "t0" on "Z", which has no rule.
CalTrips == <<Trip("t1", "r1", "A"), Trip("t2", "r1", "B"),
              Trip("t3", "r1", "A"), Trip("t0", "r1", "Z")>>

StartDates == {DateText(1), DateText(2), <<>>}
EndDates == {DateText(1), DateText(2)}
DayPatterns == {EveryDay, {}, {"monday"}, {"sunday", "tuesday"}}
RulesA == {Calendar("A", s, e, on) : s \in StartDates, e \in EndDates, on \in DayPatterns}

CalendarTables ==
    {<<>>, [s \in {"B"} |-> RuleB]}
    \cup {[s \in {"A"} |-> a] : a \in RulesA}
    \cup {[s \in {"A", "B"} |-> IF s = "A" THEN a ELSE RuleB] : a \in RulesA}

CalendarDate(sid, date, type) == [service_id |-> sid, date |-> date, exception_type |-> type]

\* The exception entries of service "A": added or removed on day 1 or 2, and
\* one of an unknown type.
EntriesA ==
    {CalendarDate("A", DateText(k), t) : k \in {1, 2}, t \in {"1", "2"}}
    \cup {CalendarDate("A", DateText(1), "3")}

ExceptionLists == UNION {[1..n -> EntriesA] : n \in 1..MaxExc}

\* No calendarDates field (a plain GTFSData), an empty table, or the entries
\* of service "A".
ExceptionTables ==
    {Absent, Some(<<>>)} \cup {Some([s \in {"A"} |-> l]) : l \in ExceptionLists}

CalendarStore(calendar, calendarDates) ==
    [stops |-> StopTable(1..MaxLen),
     routes |-> [r \in {"r1"} |-> Route(r)],
     trips |-> CalTrips,
     stopTimes |-> [t \in {"t1", "t2"} |->
                      IF t = "t1" THEN TimesOf(<<0, 0, 1, 1, 2>>) ELSE T2Times],
     calendar |-> calendar,
     calendarDates |-> calendarDates]

InitCal ==
    /\ \E c \in CalendarTables : \E x \in ExceptionTables :
         gtfsData = CalendarStore(c, x)
    /\ activeTrips = <<>>
    /\ positions = <<>>
    /\ call = [op |-> "none", arg |-> 0]
    /\ fault = FALSE
    /\ Unselected

(***************************************************************************)
(* The application: the archives a user can load, the wall clock, the      *)
(* simulation effect of App with its interval, and the selection handlers. *)
(***************************************************************************)
\* Most rows of stop_times.txt in the archives that vary its rows.
MaxRows == 3

\* Names are texts of letters: a lower-case letter is its place in the
\* alphabet, the upper-case letter that plus 100, Space the blank.
Space == 0
Upper(letter) == letter + 100

\* The stops "Ab", "B" and "ba".
StopNames == <<<<Upper(1), 2>>, <<Upper(2)>>, <<2, 1>>>>

RawStop(k) ==
    [stop_id |-> k, stop_name |-> StopNames[k],
     stop_lat |-> NumberToString(39 + k), stop_lon |-> NumberToString(k)]

\* A row of trips.txt with its headsign and its short name (empty for none).
NamedTrip(id, rid, sid, headsign, short) ==
    [trip_headsign |-> headsign, trip_short_name |-> short] @@ Trip(id, rid, sid)

RawStopTime(t, k, seq, arr, dep) ==
    [trip_id |-> t, stop_id |-> k, stop_sequence |-> seq,
     arrival_time |-> arr, departure_time |-> dep]

Archive(calendar, calendar_dates, trips, stop_times) ==
    [calendar |-> calendar,
     calendar_dates |-> calendar_dates,
     routes |-> <<Route("r1")>>,
     stops |-> [k \in 1..3 |-> RawStop(k)],
     trips |-> trips,
     stop_times |-> stop_times]

\* The timetable of the archives that vary the calendar, in file order: "t1"
\* leaves at 23:30:00 and arrives at 24:30:00, "t2" runs 00:10:00 to
\* 00:40:00, "t3" runs 24:00:00 to 24:40:00.
NightRows ==
    <<RawStopTime("t1", 2, <<2>>, TimeText(24, 30, 0), TimeText(24, 30, 0)),
      RawStopTime("t1", 1, <<1>>, TimeText(23, 30, 0), TimeText(23, 30, 0)),
      RawStopTime("t2", 1, <<1>>, TimeText(0, 10, 0), TimeText(0, 10, 0)),
      RawStopTime("t2", 2, <<2>>, TimeText(0, 40, 0), TimeText(0, 40, 0)),
      RawStopTime("t3", 2, <<1>>, TimeText(24, 0, 0), TimeText(24, 0, 0)),
      RawStopTime("t3", 3, <<2>>, TimeText(24, 40, 0), TimeText(24, 40, 0))>>

\* "t1" is headed "Ce", "t2" is headed "c" and numbered "E", "t3" is headed
\* "D".
NightTrips ==
    <<NamedTrip("t1", "r1", "A", <<Upper(3), 5>>, <<>>),
      NamedTrip("t2", "r1", "B", <<3>>, <<Upper(5)>>),
      NamedTrip("t3", "r1", "B", <<Upper(4)>>, <<>>)>>

\* calendar.txt: service "B" every day, service "A" on day 1, on days 1 and
\* 2, on day 2, or without a rule.
AppCalendars ==
    {<<RuleB>>}
    \cup {<<Calendar("A", DateText(w[1]), DateText(w[2]), EveryDay), RuleB>> :
            w \in {<<1, 1>>, <<1, 2>>, <<2, 2>>}}

\* calendar_dates.txt: nothing, "A" added on day 1, "A" removed on day 2,
\* "B" removed on day 2.
AppExceptions ==
    {<<>>,
     <<CalendarDate("A", DateText(1), "1")>>,
     <<CalendarDate("A", DateText(2), "2")>>,
     <<CalendarDate("B", DateText(2), "2")>>}

CalendarArchives ==
    {Archive(c, x, NightTrips, NightRows) : c \in AppCalendars, x \in AppExceptions}

\* stop_times.txt varied: up to MaxRows rows of the trips "t1", "t2" and of
\* "t9", which trips.txt does not have; the sequence number is 1, 2, 10 or
\* empty; row i names stop i and the times 00:i0:00. `c` gives the trip id
\* and the sequence text of each row.
SequenceTexts == {<<1>>, <<2>>, <<1, 0>>, <<>>}
RowChoices == {"t1", "t2", "t9"} \X SequenceTexts
RowList(c) ==
    [i \in 1..Len(c) |-> RawStopTime(c[i][1], i, c[i][2],
                                     TimeText(0, 10 * i, 0), TimeText(0, 10 * i, 0))]

RowArchive(c) ==
    Archive(<<RuleB>>, <<>>, <<Trip("t1", "r1", "B"), Trip("t2", "r1", "B")>>, RowList(c))

\* The instants of a day the clock is read at, and the clock moving on to
\* the next of them.
TimesOfDay == <<<<0, 0, 0>>, <<0, 30, 0>>, <<23, 59, 59>>>>
ClockAt(d, i) ==
    [day |-> d, h |-> TimesOfDay[i][1], m |-> TimesOfDay[i][2], s |-> TimesOfDay[i][3]]
Instant(c) == CHOOSE i \in 1..Len(TimesOfDay) : ClockAt(c.day, i) = c

\* The application as mounted: no store, the upload screen.
Mounted ==
    /\ gtfsData = Null
    /\ activeTrips = <<>>
    /\ positions = <<>>
    /\ call = [op |-> "none", arg |-> 0]
    /\ fault = FALSE
    /\ selectedTrain = Null
    /\ selectedStation = Null
    /\ pendingEffect = "none"
    /\ interval = FALSE
    /\ lastTick = "none"

InitApp ==
    /\ Mounted
    /\ file \in CalendarArchives
    /\ clock = ClockAt(0, 1)

InitParse ==
    /\ Mounted
    /\ \E n \in 0..MaxRows : \E c \in [1..n -> RowChoices] : file = RowArchive(c)
    /\ clock = ClockAt(1, 2)

\* Time passes.
ClockAdvance ==
    /\ \/ /\ Instant(clock) < Len(TimesOfDay)
          /\ clock' = ClockAt(clock.day, Instant(clock) + 1)
       \/ /\ Instant(clock) = Len(TimesOfDay)
          /\ clock.day < MaxDay
          /\ clock' = ClockAt(clock.day + 1, 1)
    /\ UNCHANGED <<gtfsData, activeTrips, positions, call, fault, file,
                   selectedTrain, selectedStation, pendingEffect, interval, lastTick>>

\* handleFile: the archive is parsed, then processData resolves the active
\* trips for the Madrid date of the moment and sets the store and the list.
\* The upload screen is rendered only while there is no store.
ProcessData ==
    /\ gtfsData = Null
    /\ \E data \in parseGTFSZip(file) :
         \E r \in {getActiveTripsForToday(data, DayAt(clock.day))} :
           /\ call' = [op |-> "getActiveTripsForToday", arg |-> clock.day]
           /\ fault' = r.threw
           /\ gtfsData' = data
           /\ activeTrips' = r.value
           /\ pendingEffect' = "data"
    /\ UNCHANGED <<positions, file, clock, selectedTrain, selectedStation, interval, lastTick>>

\* The position of the selected trip in a fresh list: newPositions.find.
Updated(newPositions) ==
    IF selectedTrain # Null
       /\ selectedTrain.pos.status \in {"MOVING", "AT_STOP"}
       /\ \E k \in 1..Len(newPositions) : newPositions[k].trip_id = selectedTrain.pos.trip_id
    THEN Some(CHOOSE k \in 1..Len(newPositions) :
                /\ newPositions[k].trip_id = selectedTrain.pos.trip_id
                /\ \A j \in 1..(k - 1) : newPositions[j].trip_id # selectedTrain.pos.trip_id)
    ELSE Absent

\* tick(), run by `by`. The selected train is a Position object, held with
\* the index it has in the current Position list (`ref`, 0 when it is not an
\* element of it): a refreshed selection is a new object, which makes the
\* effect due again.
RunTick(by) ==
    /\ lastTick' = by
    /\ IF Len(activeTrips) = 0
       THEN /\ pendingEffect' = "none"
            /\ UNCHANGED <<positions, call, fault, selectedTrain>>
       ELSE \E r \in {calculateTrainPositions(gtfsData, activeTrips, getCurrentSeconds(clock))} :
              /\ call' = [op |-> "calculateTrainPositions", arg |-> getCurrentSeconds(clock)]
              /\ fault' = r.threw
              /\ IF r.threw
                 THEN /\ pendingEffect' = "none"
                      /\ UNCHANGED <<positions, selectedTrain>>
                 ELSE /\ positions' = r.value
                      /\ IF Updated(r.value) # Absent
                         THEN /\ selectedTrain' = [pos |-> r.value[Val(Updated(r.value))],
                                                   ref |-> Val(Updated(r.value))]
                              /\ pendingEffect' = "tick"
                         ELSE /\ selectedTrain' =
                                   IF selectedTrain = Null THEN Null
                                   ELSE [selectedTrain EXCEPT !.ref = 0]
                              /\ pendingEffect' = "none"

\* The simulation effect runs again after a render in which gtfsData,
\* activeTrips or selectedTrain changed: the old interval is cleared, and,
\* with a store, tick() runs at once and a new interval is set.
EffectRun ==
    /\ pendingEffect # "none"
    /\ IF gtfsData = Null
       THEN /\ interval' = FALSE
            /\ pendingEffect' = "none"
            /\ UNCHANGED <<positions, call, fault, selectedTrain, lastTick>>
       ELSE /\ RunTick(pendingEffect)
            /\ interval' = TRUE
    /\ UNCHANGED <<gtfsData, activeTrips, file, clock, selectedStation>>

\* The interval fires: tick(). A due effect runs first (it clears this
\* interval).
IntervalFire ==
    /\ interval
    /\ pendingEffect = "none"
    /\ RunTick("interval")
    /\ UNCHANGED <<gtfsData, activeTrips, file, clock, selectedStation, interval>>

\* The map view is rendered with a store; a handler runs once the effects
\* of an earlier handler or of the load have run.
Handling == gtfsData # Null /\ pendingEffect \in {"none", "tick"}

\* onSelectTrain: a click on the marker of positions[k].
SelectTrain ==
    /\ Handling
    /\ \E k \in 1..Len(positions) :
         /\ selectedTrain' = [pos |-> positions[k], ref |-> k]
         /\ pendingEffect' =
              IF selectedTrain # Null /\ selectedTrain.ref = k THEN pendingEffect
              ELSE "selection"
    /\ selectedStation' = Null
    /\ UNCHANGED <<gtfsData, activeTrips, positions, call, fault, file, clock, interval, lastTick>>

\* Faulty variant of SelectStation: the selected train is kept.
SelectStation_keepstrain ==
    /\ Handling
    /\ \E k \in DOMAIN gtfsData.stops : selectedStation' = gtfsData.stops[k]
    /\ UNCHANGED <<gtfsData, activeTrips, positions, call, fault, file, clock, interval, lastTick,
                   selectedTrain, pendingEffect>>

\* onSelectStation: a click on a station marker.
SelectStation ==
    /\ Handling
    /\ \E k \in DOMAIN gtfsData.stops : selectedStation' = gtfsData.stops[k]
    /\ selectedTrain' = Null
    /\ pendingEffect' = IF selectedTrain # Null THEN "selection" ELSE pendingEffect
    /\ UNCHANGED <<gtfsData, activeTrips, positions, call, fault, file, clock, interval, lastTick>>

\* handleCloseSelection
CloseSelection ==
    /\ Handling
    /\ selectedTrain' = Null
    /\ selectedStation' = Null
    /\ pendingEffect' = IF selectedTrain # Null THEN "selection" ELSE pendingEffect
    /\ UNCHANGED <<gtfsData, activeTrips, positions, call, fault, file, clock, interval, lastTick>>

\* String.prototype.toLowerCase, includes and trim.
toLowerCase(str) == [i \in 1..Len(str) |-> IF str[i] > 100 THEN str[i] - 100 ELSE str[i]]
includes(str, term) ==
    \E i \in 0..(Len(str) - Len(term)) : SubSeq(str, i + 1, i + Len(term)) = term
RECURSIVE trim(_)
trim(str) ==
    IF Len(str) = 0 THEN str
    ELSE IF Head(str) = Space THEN trim(Tail(str))
    ELSE IF str[Len(str)] = Space THEN trim(SubSeq(str, 1, Len(str) - 1))
    ELSE str

\* What the user types into the search box: nothing, a blank, "a", "C",
\* "d", "e" and "z".
SearchTerms == {<<>>, <<Space>>, <<1>>, <<Upper(3)>>, <<4>>, <<5>>, <<26>>}

\* The trip matches the term: by its short name or by its headsign.
TripMatches(trip, term) ==
    \/ includes(toLowerCase(trip.trip_short_name), term)
    \/ includes(toLowerCase(trip.trip_headsign), term)

\* Array.prototype.find on the stop table (in the order of the stop ids, the
\* order of stops.txt in the modelled archives; a term is never a stop id),
\* on the Position list and on the trip table: the index found, if any.
FoundStop(term) ==
    LET hits == {k \in DOMAIN gtfsData.stops :
                   includes(toLowerCase(gtfsData.stops[k].stop_name), term)}
    IN  IF hits = {} THEN Absent ELSE Some(CHOOSE k \in hits : \A j \in hits : k <= j)
FoundLive(term) ==
    LET hits == {k \in 1..Len(positions) :
                   /\ positions[k].trip # Absent
                   /\ TripMatches(Val(positions[k].trip), term)}
    IN  IF hits = {} THEN Absent ELSE Some(CHOOSE k \in hits : \A j \in hits : k <= j)
FoundTrip(term) ==
    LET hits == {k \in 1..Len(gtfsData.trips) : TripMatches(gtfsData.trips[k], term)}
    IN  IF hits = {} THEN Absent ELSE Some(CHOOSE k \in hits : \A j \in hits : k <= j)

\* The placeholder of a trip that is not on the map: its first stop, when
\* the stop table has it.
FirstStop(trip) ==
    LET times == MapGet(gtfsData.stopTimes, trip.trip_id) IN
    IF times = Absent THEN Absent ELSE MapGet(gtfsData.stops, Val(times)[1].stop_id)
StaticPosition(trip, firstStop) ==
    [trip_id |-> trip.trip_id,
     lat |-> Num(firstStop.stop_lat),
     lng |-> Num(firstStop.stop_lon),
     bearing |-> 0,
     status |-> "SCHEDULED",
     nextStop |-> Absent,
     prevStop |-> Absent,
     route |-> MapGet(gtfsData.routes, trip.route_id),
     trip |-> Some(trip)]

\* handleSearch on the term of the search box: a station, else a train on
\* the map, else the placeholder of a trip of the store, else an alert.
HandleSearch ==
    /\ Handling
    /\ \E searchTerm \in SearchTerms :
         LET term == toLowerCase(searchTerm) IN
         IF Len(trim(searchTerm)) = 0
         THEN UNCHANGED <<selectedTrain, selectedStation, pendingEffect>>
         ELSE IF FoundStop(term) # Absent
         THEN /\ selectedStation' = gtfsData.stops[Val(FoundStop(term))]
              /\ selectedTrain' = Null
              /\ pendingEffect' = IF selectedTrain # Null THEN "selection" ELSE pendingEffect
         ELSE IF FoundLive(term) # Absent
         THEN /\ selectedTrain' = [pos |-> positions[Val(FoundLive(term))],
                                   ref |-> Val(FoundLive(term))]
              /\ selectedStation' = Null
              /\ pendingEffect' =
                   IF selectedTrain # Null /\ selectedTrain.ref = Val(FoundLive(term))
                   THEN pendingEffect ELSE "selection"
         ELSE IF FoundTrip(term) # Absent /\ FirstStop(gtfsData.trips[Val(FoundTrip(term))]) # Absent
         THEN /\ selectedTrain' =
                   [pos |-> StaticPosition(gtfsData.trips[Val(FoundTrip(term))],
                                           Val(FirstStop(gtfsData.trips[Val(FoundTrip(term))]))),
                    ref |-> 0]
              /\ selectedStation' = Null
              /\ pendingEffect' = "selection"
         ELSE UNCHANGED <<selectedTrain, selectedStation, pendingEffect>>
    /\ UNCHANGED <<gtfsData, activeTrips, positions, call, fault, file, clock, interval, lastTick>>

\* The train markers TrainMap renders: the Positions of the list, those of
\* status SCHEDULED or ENDED only when their trip is the selected one.
TrainMarkers ==
    SelectSeq(positions,
              LAMBDA train :
                 LET isSelected == selectedTrain # Null
                                     /\ selectedTrain.pos.trip_id = train.trip_id
                 IN  /\ ~(train.status = "SCHEDULED" /\ ~isSelected)
                     /\ ~(train.status = "ENDED" /\ ~isSelected))

NextApp ==
    \/ ClockAdvance
    \/ ProcessData
    \/ EffectRun
    \/ IntervalFire
    \/ SelectTrain
    \/ SelectStation
    \/ CloseSelection
    \/ HandleSearch

\* The application from the upload screen on, on the archives that vary the
\* calendar.
SpecApp == InitApp /\ [][NextApp]_vars

NextParse == ProcessData

\* The load of the archives that vary stop_times.txt.
SpecParse == InitParse /\ [][NextParse]_vars

NextSim == Tick

\* The simulator on every schedule store.
SpecSim == InitSim /\ [][NextSim]_vars

NextCal == Resolve

\* The resolver on every calendar store.
SpecCal == InitCal /\ [][NextCal]_vars

Init == InitSim \/ InitCal

Next == Tick \/ Resolve

\* Both on every store.
Spec == Init /\ [][Next]_vars

(***************************************************************************)
(* Vocabulary of the properties: the schedule as the specification words   *)
(* it, read off the store of the state after a call.                       *)
(***************************************************************************)
Ticked == call.op = "calculateTrainPositions"
Resolved == call.op = "getActiveTripsForToday"
nowSeconds == call.arg

\* Seconds of a stop-time field: an unparsable time counts as 0.
Secs(x) == IF x = NaN THEN 0 ELSE x

Schedule(t) ==
    IF t \in DOMAIN gtfsData.stopTimes THEN gtfsData.stopTimes[t] ELSE <<>>
arrival(t, i) == Secs(Schedule(t)[i].arrival_seconds)
departure(t, i) == Secs(Schedule(t)[i].departure_seconds)
firstDeparture(t) == departure(t, 1)
lastArrival(t) == arrival(t, Len(Schedule(t)))

InWindow(t) ==
    /\ Len(Schedule(t)) >= 2
    /\ firstDeparture(t) <= nowSeconds
    /\ nowSeconds <= lastArrival(t)

AtStopAt(t, i) == arrival(t, i) <= nowSeconds /\ nowSeconds <= departure(t, i)
InTransitAt(t, i) == departure(t, i) < nowSeconds /\ nowSeconds < arrival(t, i + 1)

\* The indices the scan can stop at, and the one it stops at.
Matches(t) == {i \in 1..(Len(Schedule(t)) - 1) : AtStopAt(t, i) \/ InTransitAt(t, i)}
Selected(t, i) == i \in Matches(t) /\ \A j \in Matches(t) : i <= j

\* The stop table's entry for the stop of stop-time i, if any.
StopRec(t, i) == MapGet(gtfsData.stops, Schedule(t)[i].stop_id)
AllResolve(t) == \A i \in 1..Len(Schedule(t)) : StopRec(t, i) # Absent

WellFormed(t) ==
    \A i \in 1..Len(Schedule(t)) :
        /\ arrival(t, i) <= departure(t, i)
        /\ i < Len(Schedule(t)) => departure(t, i) <= arrival(t, i + 1)

Active == {activeTrips[k] : k \in 1..Len(activeTrips)}
PositionsOf(t) == {k \in 1..Len(positions) : positions[k].trip_id = t}

\* C1: a Position is emitted for a trip id only if the trip has at least two
\* stop-times and firstDeparture <= nowSeconds <= lastArrival; a trip with 0
\* or 1 stop-times, or outside that window, contributes no Position.
C1_OnlyInsideWindow ==
    Ticked => \A k \in 1..Len(positions) : InWindow(positions[k].trip_id)

\* A tick that emits a Position while another active trip has finished.
C1_Witness ==
    /\ Ticked
    /\ positions # <<>>
    /\ \E t \in Active : Len(Schedule(t)) >= 2 /\ nowSeconds > lastArrival(t)
    /\ \E t \in Active : Len(Schedule(t)) >= 2 /\ nowSeconds < firstDeparture(t)

\* C2 as stated: inside the window, when the first matched index i is an
\* at-stop match, a Position AT_STOP at stop i with bearing 0, prevStop stop
\* i and nextStop stop i+1 is emitted.
C2_AtStopAlwaysEmitted ==
    Ticked =>
      \A t \in Active : \A i \in 1..(Len(Schedule(t)) - 1) :
        (InWindow(t) /\ Selected(t, i) /\ AtStopAt(t, i)) =>
          \E k \in PositionsOf(t) :
            /\ positions[k].status = "AT_STOP"
            /\ positions[k].bearing = 0
            /\ positions[k].prevStop = StopRec(t, i)
            /\ positions[k].nextStop = StopRec(t, i + 1)

\* C2, amended: the same, provided stop i resolves in the stop table; the
\* Position then has exactly the coordinates of stop i, and nextStop is the
\* stop table's entry for stop i+1 (absent when it has none). In particular
\* at nowSeconds = firstDeparture, with arrival[0] <= departure[0], the trip
\* is AT_STOP at its first stop.
C2_AtStopPosition ==
    Ticked =>
      \A t \in Active :
        /\ \A i \in 1..(Len(Schedule(t)) - 1) :
            (InWindow(t) /\ Selected(t, i) /\ AtStopAt(t, i) /\ StopRec(t, i) # Absent) =>
              \E k \in PositionsOf(t) :
                /\ positions[k].status = "AT_STOP"
                /\ positions[k].lat = Num(Val(StopRec(t, i)).stop_lat)
                /\ positions[k].lng = Num(Val(StopRec(t, i)).stop_lon)
                /\ positions[k].bearing = 0
                /\ positions[k].prevStop = StopRec(t, i)
                /\ positions[k].nextStop = StopRec(t, i + 1)
        /\ (/\ InWindow(t)
            /\ nowSeconds = firstDeparture(t)
            /\ arrival(t, 1) <= departure(t, 1)
            /\ StopRec(t, 1) # Absent) =>
              \E k \in PositionsOf(t) :
                /\ positions[k].status = "AT_STOP"
                /\ positions[k].prevStop = StopRec(t, 1)

\* A train waiting at its second stop, whose next stop resolves.
C2_Witness ==
    /\ Ticked
    /\ \E t \in Active :
         /\ InWindow(t) /\ Len(Schedule(t)) >= 3
         /\ Selected(t, 2) /\ AtStopAt(t, 2)
         /\ StopRec(t, 2) # Absent /\ StopRec(t, 3) # Absent
         /\ \E k \in PositionsOf(t) : positions[k].status = "AT_STOP"

\* C3: at nowSeconds = lastArrival a well-formed trip whose stops all
\* resolve is AT_STOP at its last stop.
C3_AtLastStopOnArrival ==
    Ticked =>
      \A t \in Active :
        (/\ Len(Schedule(t)) >= 2
         /\ WellFormed(t)
         /\ AllResolve(t)
         /\ nowSeconds = lastArrival(t)) =>
          \E k \in PositionsOf(t) :
            /\ positions[k].status = "AT_STOP"
            /\ positions[k].lat = Num(Val(StopRec(t, Len(Schedule(t)))).stop_lat)
            /\ positions[k].lng = Num(Val(StopRec(t, Len(Schedule(t)))).stop_lon)

Min(a, b) == IF a <= b THEN a ELSE b
Max(a, b) == IF a >= b THEN a ELSE b

\* The fraction q is the blend start + (end - start) * elapsed / duration and
\* lies between start and end.
IsBlend(q, start, end, elapsed, duration) ==
    /\ q.d > 0
    /\ q.n * duration = (start * duration + (end - start) * elapsed) * q.d
    /\ Min(start, end) * q.d <= q.n
    /\ q.n <= Max(start, end) * q.d

\* C4: when the scan selects i with departure[i] < nowSeconds < arrival[i+1]
\* and both stops resolve, the Position is MOVING, between stop i and stop
\* i+1, at the linear blend of their latitudes and of their longitudes, with
\* a positive divisor and 0 < f < 1.
C4_MovingInterpolation ==
    Ticked =>
      \A t \in Active : \A i \in 1..(Len(Schedule(t)) - 1) :
        (/\ InWindow(t) /\ Selected(t, i) /\ ~AtStopAt(t, i)
         /\ StopRec(t, i) # Absent /\ StopRec(t, i + 1) # Absent) =>
          LET a == Val(StopRec(t, i))
              b == Val(StopRec(t, i + 1))
              duration == arrival(t, i + 1) - departure(t, i)
              elapsed == nowSeconds - departure(t, i)
          IN  /\ duration > 0 /\ 0 < elapsed /\ elapsed < duration
              /\ \E k \in PositionsOf(t) :
                   /\ positions[k].status = "MOVING"
                   /\ positions[k].prevStop = Some(a)
                   /\ positions[k].nextStop = Some(b)
                   /\ IsBlend(positions[k].lat, a.stop_lat, b.stop_lat, elapsed, duration)
                   /\ IsBlend(positions[k].lng, a.stop_lon, b.stop_lon, elapsed, duration)

\* Half way between a stop at latitude 40 and one at latitude 41, both at
\* longitude -3: latitude 40.5, longitude -3.
C4_Witness ==
    /\ Ticked
    /\ \E t \in Active : \E i \in 1..(Len(Schedule(t)) - 1) :
         /\ InWindow(t) /\ Selected(t, i) /\ InTransitAt(t, i)
         /\ StopRec(t, i) # Absent /\ StopRec(t, i + 1) # Absent
         /\ Val(StopRec(t, i)).stop_lat = 40 /\ Val(StopRec(t, i + 1)).stop_lat = 41
         /\ 2 * (nowSeconds - departure(t, i)) = arrival(t, i + 1) - departure(t, i)
         /\ \E k \in PositionsOf(t) :
              /\ positions[k].status = "MOVING"
              /\ 2 * positions[k].lat.n = 81 * positions[k].lat.d
              /\ positions[k].lng.n = (-3) * positions[k].lng.d

\* C5: on a well-formed trip of three or more stops, with nowSeconds strictly
\* between departure[k] and arrival[k+1], a Position of the trip is MOVING
\* from stop k to stop k+1 (and is emitted when both resolve); no earlier
\* segment is selected.
C5_SegmentOfNow ==
    Ticked =>
      \A t \in Active : \A i \in 1..(Len(Schedule(t)) - 1) :
        (Len(Schedule(t)) >= 3 /\ WellFormed(t) /\ InTransitAt(t, i)) =>
          /\ \A k \in PositionsOf(t) :
               /\ positions[k].status = "MOVING"
               /\ positions[k].prevStop = StopRec(t, i)
               /\ positions[k].nextStop = StopRec(t, i + 1)
          /\ (StopRec(t, i) # Absent /\ StopRec(t, i + 1) # Absent) => PositionsOf(t) # {}

\* A three-stop trip between its second and its third stop.
C5_Witness ==
    /\ Ticked
    /\ \E t \in Active :
         /\ Len(Schedule(t)) >= 3 /\ WellFormed(t) /\ InTransitAt(t, 2)
         /\ \E k \in PositionsOf(t) : positions[k].prevStop = StopRec(t, 2)

\* How often a trip id occurs in the active-trip list (once, in a set).
Occurrences(t) == Cardinality({k \in 1..Len(activeTrips) : activeTrips[k] = t})

\* C6: one call emits at most one Position per trip id of the active-trip
\* set (one per occurrence in the list), and it comes from the lowest index
\* at which the at-stop or the in-transit condition holds.
C6_FirstMatchOnly ==
    Ticked =>
      \A t \in Active :
        /\ Cardinality(PositionsOf(t)) <= Occurrences(t)
        /\ \A k \in PositionsOf(t) :
             \E i \in Matches(t) :
               /\ Selected(t, i)
               /\ positions[k].prevStop = StopRec(t, i)
               /\ positions[k].prevStop # Absent
               /\ positions[k].status = IF AtStopAt(t, i) THEN "AT_STOP" ELSE "MOVING"

\* Non-monotonic times: the first and the second segment both match, and the
\* Position is the one of the first.
C6_Witness ==
    /\ Ticked
    /\ \E t \in Active :
         /\ Occurrences(t) = 1
         /\ {1, 2} \subseteq Matches(t)
         /\ \E k \in PositionsOf(t) : positions[k].prevStop = StopRec(t, 1)

\* C7: every returned Position has status MOVING or AT_STOP and the trip id
\* of an element of activeTripIds.
C7_StatusAndTripId ==
    Ticked =>
      \A k \in 1..Len(positions) :
        /\ positions[k].status \in {"MOVING", "AT_STOP"}
        /\ positions[k].trip_id \in Active

\* A Position is returned while another trip, not in the list, is also on
\* its way.
C7_Witness ==
    /\ Ticked
    /\ positions # <<>>
    /\ \E t \in DOMAIN gtfsData.stopTimes :
         t \notin Active /\ InWindow(t) /\ Matches(t) # {} /\ AllResolve(t)

\* The scan stops at a segment of trip t whose needed stops resolve.
Locatable(t) ==
    /\ InWindow(t)
    /\ \E i \in Matches(t) :
         /\ Selected(t, i)
         /\ StopRec(t, i) # Absent
         /\ AtStopAt(t, i) \/ StopRec(t, i + 1) # Absent

\* C8: a trip id missing from the trip table, or a route id missing from the
\* route table, never drops the Position: it is emitted with the trip and
\* route fields holding what the lookups give, absent when they give nothing.
C8_LookupsNeverDrop ==
    Ticked =>
      \A t \in Active :
        Locatable(t) =>
          \E k \in PositionsOf(t) :
            LET trip == TripGet(gtfsData.trips, t) IN
            /\ positions[k].trip = trip
            /\ trip = Absent =>
                 /\ positions[k].trip = Absent
                 /\ "" \notin DOMAIN gtfsData.routes => positions[k].route = Absent
            /\ (trip # Absent /\ Val(trip).route_id \notin DOMAIN gtfsData.routes) =>
                 positions[k].route = Absent
            /\ (trip # Absent /\ Val(trip).route_id \in DOMAIN gtfsData.routes) =>
                 positions[k].route = Some(gtfsData.routes[Val(trip).route_id])

\* A train at a stop whose trip id is not in the trip table.
C8_Witness ==
    /\ Ticked
    /\ \E t \in Active :
         /\ Locatable(t)
         /\ TripGet(gtfsData.trips, t) = Absent
         /\ \E i \in Matches(t) : Selected(t, i) /\ AtStopAt(t, i)
         /\ \E k \in PositionsOf(t) : positions[k].trip = Absent /\ positions[k].route = Absent

\* C9 as stated: whenever the scan selects a segment of an active trip, a
\* Position is emitted for the trip, resolved stops or not.
C9_UnresolvedStopStillEmitted ==
    Ticked =>
      \A t \in Active :
        (InWindow(t) /\ Matches(t) # {}) => PositionsOf(t) # {}

\* C9, amended: an unresolved stop never raises an error. At a stop, the
\* Position is emitted exactly when that stop resolves, an unresolved next
\* stop being carried as an absent nextStop; in transit, it is emitted
\* exactly when both stops resolve; otherwise the trip is left out.
C9_UnresolvedStopOmits ==
    Ticked =>
      /\ ~fault
      /\ \A t \in Active : \A i \in Matches(t) :
           (InWindow(t) /\ Selected(t, i)) =>
             IF AtStopAt(t, i)
             THEN /\ PositionsOf(t) # {} <=> StopRec(t, i) # Absent
                  /\ \A k \in PositionsOf(t) : positions[k].nextStop = StopRec(t, i + 1)
             ELSE PositionsOf(t) # {} <=>
                    (StopRec(t, i) # Absent /\ StopRec(t, i + 1) # Absent)

\* One trip at a stop with an unresolved next stop (emitted, nextStop
\* absent), another in transit towards an unresolved stop (left out).
C9_Witness ==
    /\ Ticked
    /\ \E t \in Active : \E i \in Matches(t) :
         /\ InWindow(t) /\ Selected(t, i) /\ AtStopAt(t, i)
         /\ StopRec(t, i + 1) = Absent
         /\ \E k \in PositionsOf(t) : positions[k].nextStop = Absent
    /\ \E t \in Active : \E i \in Matches(t) :
         /\ InWindow(t) /\ Selected(t, i) /\ ~AtStopAt(t, i)
         /\ StopRec(t, i + 1) = Absent
         /\ PositionsOf(t) = {}

\* C10: neither call raises an error, whatever the store and the input: the
\* simulator returns a list of Positions, the resolver a list of trip ids of
\* the trip table.
C10_Total ==
    /\ ~fault
    /\ Ticked => \A k \in 1..Len(positions) : positions[k].trip_id \in Active
    /\ Resolved =>
         \A k \in 1..Len(activeTrips) : TripGet(gtfsData.trips, activeTrips[k]) # Absent

\* A tick on a store without exception table, after the resolver activated a
\* trip that has no stop-times.
C10_Witness ==
    /\ Ticked
    /\ gtfsData.calendarDates = Absent
    /\ \E t \in Active : t \notin DOMAIN gtfsData.stopTimes
    /\ \E t \in Active : PositionsOf(t) # {}

(***************************************************************************)
(* Vocabulary of the resolver's properties: the calendar as the            *)
(* specification words it, read off the store of the state after a call.   *)
(***************************************************************************)
\* The day the resolver was asked about, and its weekday's flag name.
today == call.arg
Weekday(k) == days[(k % 7) + 1]

\* The calendar text names a day on or before (on or after) day k.
NotAfter(txt, k) == \E j \in 0..31 : DateText(j) = txt /\ j <= k
NotBefore(txt, k) == \E j \in 0..31 : DateText(j) = txt /\ j >= k

\* The weekly rule of the service covers day k.
RuleMatches(sid, k) ==
    /\ sid \in DOMAIN gtfsData.calendar
    /\ gtfsData.calendar[sid][Weekday(k)] = "1"
    /\ NotAfter(gtfsData.calendar[sid].start_date, k)
    /\ NotBefore(gtfsData.calendar[sid].end_date, k)

\* The exception entries of the service, and whether one of a type is listed
\* for day k.
Exceptions(sid) ==
    IF gtfsData.calendarDates = Absent THEN <<>>
    ELSE IF sid \in DOMAIN Val(gtfsData.calendarDates)
         THEN Val(gtfsData.calendarDates)[sid] ELSE <<>>
Listed(sid, k, type) ==
    \E i \in 1..Len(Exceptions(sid)) :
        /\ Exceptions(sid)[i].date = DateText(k)
        /\ Exceptions(sid)[i].exception_type = type

\* The service is active in the result: a trip of it is in the list.
TripsOf(sid) ==
    {gtfsData.trips[i].trip_id : i \in {j \in 1..Len(gtfsData.trips) :
                                         gtfsData.trips[j].service_id = sid}}
ServiceOn(sid) == \E t \in TripsOf(sid) : t \in Active
Services == {gtfsData.trips[i].service_id : i \in 1..Len(gtfsData.trips)}

\* C11: a service with no exception entries is active on a date exactly when
\* it has a weekly rule whose flag for the date's weekday is set and whose
\* window start_date..end_date, both ends included, holds the date.
C11_RuleWindowInclusive ==
    Resolved =>
      \A sid \in Services :
        Exceptions(sid) = <<>> => (ServiceOn(sid) <=> RuleMatches(sid, today))

\* The resolver asked about the last day of a two-day window: active.
C11_Witness ==
    /\ Resolved
    /\ Exceptions("A") = <<>>
    /\ "A" \in DOMAIN gtfsData.calendar
    /\ gtfsData.calendar["A"].start_date = DateText(1)
    /\ gtfsData.calendar["A"].end_date = DateText(2)
    /\ today = 2
    /\ ServiceOn("A")

Deciding(sid, k) ==
    {i \in 1..Len(Exceptions(sid)) :
        /\ Exceptions(sid)[i].date = DateText(k)
        /\ Exceptions(sid)[i].exception_type \in {"1", "2"}}
FinallyActive(sid, k) ==
    IF Deciding(sid, k) = {} THEN RuleMatches(sid, k)
    ELSE \E i \in Deciding(sid, k) :
           /\ \A j \in Deciding(sid, k) : j <= i
           /\ Exceptions(sid)[i].exception_type = "1"

\* C14: the result holds exactly the trip ids of the trips whose service is
\* in the final active set, each once; a trip whose service is not in the
\* set is not in the result.
C14_ExactlyTripsOfActiveServices ==
    Resolved =>
      /\ \A i, j \in 1..Len(activeTrips) : activeTrips[i] = activeTrips[j] => i = j
      /\ Active = {gtfsData.trips[i].trip_id : i \in {j \in 1..Len(gtfsData.trips) :
                       FinallyActive(gtfsData.trips[j].service_id, today)}}

\* Both trips of an active service and the trip of another in the result,
\* the trip of a service without rule left out.
C14_Witness ==
    /\ Resolved
    /\ Active = {"t1", "t2", "t3"}
    /\ Len(activeTrips) = 3

(***************************************************************************)
(* Vocabulary of the application's properties.                             *)
(***************************************************************************)
Loaded == gtfsData # Null

\* A time text "HH:MM:SS" read digit by digit.
HoursOf(txt) == txt[1] * 10 + txt[2]
SecondsOf(txt) ==
    HoursOf(txt) * 3600 + (txt[4] * 10 + txt[5]) * 60 + txt[7] * 10 + txt[8]
FirstDepartureText(t) == Schedule(t)[1].departure_time
LastArrivalText(t) == Schedule(t)[Len(Schedule(t))].arrival_time

\* C17: nowSeconds lies in [0, 86400), so a trip whose first departure is at
\* 24:00:00 or later never gets a Position, and a trip that leaves before
\* midnight and arrives after it gets none once nowSeconds has wrapped to a
\* value below its first departure.
C17_PastMidnightNeverShown ==
    (Loaded /\ Ticked) =>
      /\ nowSeconds >= 0 /\ nowSeconds < 86400
      /\ \A t \in Active :
           Len(Schedule(t)) >= 1 =>
             /\ HoursOf(FirstDepartureText(t)) >= 24 => PositionsOf(t) = {}
             /\ (/\ HoursOf(FirstDepartureText(t)) < 24
                 /\ HoursOf(LastArrivalText(t)) >= 24
                 /\ nowSeconds < SecondsOf(FirstDepartureText(t))) => PositionsOf(t) = {}

\* Half past midnight, a midnight after the start: the day trip is on the
\* map, the trip that left at 23:30:00 and the one scheduled from 24:00:00
\* are not.
C17_Witness ==
    /\ Loaded /\ Ticked
    /\ nowSeconds = 1800
    /\ clock.day >= 1
    /\ {"t1", "t2", "t3"} \subseteq Active
    /\ PositionsOf("t2") # {}
    /\ PositionsOf("t1") = {}
    /\ PositionsOf("t3") = {}

\* The rows of stop_times.txt of a trip id, the list the store holds for it,
\* and the trip ids of the archive.
InputRows(t) == SelectSeq(file.stop_times, LAMBDA st : st.trip_id = t)
Stored(t) == IF t \in DOMAIN gtfsData.stopTimes THEN gtfsData.stopTimes[t] ELSE <<>>
KnownTrips == {file.trips[i].trip_id : i \in 1..Len(file.trips)}
RowTrips == {file.stop_times[i].trip_id : i \in 1..Len(file.stop_times)}
Columns(st) == <<st.trip_id, st.stop_id, st.arrival_time, st.departure_time>>

\* The stored list holds the rows of the trip, each once (a row is known by
\* its stop).
SameRows(t) ==
    /\ Len(Stored(t)) = Len(InputRows(t))
    /\ {Columns(Stored(t)[i]) : i \in 1..Len(Stored(t))}
         = {Columns(InputRows(t)[i]) : i \in 1..Len(InputRows(t))}

\* The sequence number a text of one or two digits writes; NaN for none.
SequenceOf(txt) ==
    IF Len(txt) = 0 THEN NaN ELSE IF Len(txt) = 1 THEN txt[1] ELSE txt[1] * 10 + txt[2]
Sequenced(t) == \A i \in 1..Len(InputRows(t)) : InputRows(t)[i].stop_sequence # <<>>
FilePlace(t, k) == CHOOSE i \in 1..Len(InputRows(t)) : InputRows(t)[i].stop_id = k

\* C18 as stated: for every trip id the stored list holds exactly the rows
\* of the trip and is strictly increasing by stop_sequence.
C18_StrictlyIncreasing ==
    Loaded =>
      \A t \in KnownTrips \cup RowTrips :
        /\ SameRows(t)
        /\ \A i \in 1..(Len(Stored(t)) - 1) :
             /\ Stored(t)[i].stop_sequence # NaN
             /\ Stored(t)[i + 1].stop_sequence # NaN
             /\ Stored(t)[i].stop_sequence < Stored(t)[i + 1].stop_sequence

\* C18, amended: for every trip id of trips.txt the stored list holds
\* exactly the rows of the trip, each with its sequence number parsed; rows
\* of other trip ids are stored nowhere. When every row of the trip carries
\* a sequence number the list never decreases by stop_sequence, and rows of
\* equal number keep their file order (so the order is strictly increasing
\* exactly when the numbers of the trip are distinct).
C18_SortedBySequence ==
    Loaded =>
      /\ DOMAIN gtfsData.stopTimes \subseteq KnownTrips
      /\ \A t \in KnownTrips :
           /\ SameRows(t)
           /\ \A i \in 1..Len(Stored(t)) :
                \E j \in 1..Len(InputRows(t)) :
                   /\ Columns(InputRows(t)[j]) = Columns(Stored(t)[i])
                   /\ Stored(t)[i].stop_sequence = SequenceOf(InputRows(t)[j].stop_sequence)
           /\ Sequenced(t) =>
                \A i \in 1..(Len(Stored(t)) - 1) :
                   /\ Stored(t)[i].stop_sequence <= Stored(t)[i + 1].stop_sequence
                   /\ Stored(t)[i].stop_sequence = Stored(t)[i + 1].stop_sequence =>
                        FilePlace(t, Stored(t)[i].stop_id)
                          < FilePlace(t, Stored(t)[i + 1].stop_id)

\* Three rows of one trip, numbered 10, 2, 1 in the file, stored as 1, 2, 10.
C18_Witness ==
    /\ Loaded
    /\ Len(InputRows("t1")) = 3
    /\ [i \in 1..3 |-> InputRows("t1")[i].stop_sequence] = <<<<1, 0>>, <<2>>, <<1>>>>
    /\ [i \in 1..3 |-> Stored("t1")[i].stop_sequence] = <<1, 2, 10>>
    /\ [i \in 1..3 |-> Stored("t1")[i].stop_id] = <<3, 2, 1>>

\* C19: at every tick the active-trip list is the resolver's result for the
\* store and the Madrid date of that tick, also after the clock has passed
\* midnight since the load.
C19_ActiveListOfTickDate ==
    [][(Loaded /\ (EffectRun \/ IntervalFire)) =>
         activeTrips = getActiveTripsForToday(gtfsData, DayAt(clock.day)).value]_vars

\* C20: every tick is run by the interval or by the effect starting after a
\* load or after the user changed the selection; none is run by an effect
\* that a tick made due.
C20_TicksOnCadenceOnly == lastTick # "tick"

\* C21: a trip of the active-trip set with at least two stop-times,
\* arrival[i] <= departure[i] <= arrival[i+1] throughout and every stop
\* resolvable gets exactly one Position (one per occurrence in the list) at
\* every nowSeconds with firstDeparture <= nowSeconds < lastArrival.
C21_NoGapNoDisappearance ==
    Ticked =>
      \A t \in Active :
        (/\ Len(Schedule(t)) >= 2
         /\ WellFormed(t)
         /\ AllResolve(t)
         /\ firstDeparture(t) <= nowSeconds
         /\ nowSeconds < lastArrival(t)) =>
          Cardinality(PositionsOf(t)) = Occurrences(t)

\* A three-stop trip that waits no time at its second stop, at the second of
\* that stop: one Position.
C21_Witness ==
    /\ Ticked
    /\ \E t \in Active :
         /\ Len(Schedule(t)) = 3 /\ WellFormed(t) /\ AllResolve(t)
         /\ firstDeparture(t) < nowSeconds /\ nowSeconds < lastArrival(t)
         /\ arrival(t, 2) = nowSeconds /\ departure(t, 2) = nowSeconds
         /\ Occurrences(t) = 1
         /\ Cardinality(PositionsOf(t)) = 1

\* C22: a selected train has a marker on the map whatever its status; in
\* particular the SCHEDULED placeholder that handleSearch builds and selects
\* has one.
C22_SelectedTrainHasMarker ==
    (Loaded /\ selectedTrain # Null) =>
      \E k \in 1..Len(TrainMarkers) : TrainMarkers[k].trip_id = selectedTrain.pos.trip_id

\* The stop-time indices of trip t that the Positions of a list name as
\* prevStop.
PrevIndices(list, t) ==
    {i \in 1..Len(Schedule(t)) :
        \E k \in 1..Len(list) : list[k].trip_id = t /\ list[k].prevStop = StopRec(t, i)}
Shown(list, t) == \E k \in 1..Len(list) : list[k].trip_id = t

\* C23: from one call to the next with nowSeconds not decreasing, for a
\* well-formed trip whose stops resolve, the stop-time index of the emitted
\* prevStop does not decrease, and a trip that produced no Position because
\* nowSeconds > lastArrival produces none.
C23_ProgressMonotonic ==
    [][(/\ call.op = "calculateTrainPositions"
        /\ call'.op = "calculateTrainPositions"
        /\ ~fault /\ ~fault'
        /\ call'.arg >= call.arg) =>
         \A t \in Active :
           (Len(Schedule(t)) >= 2 /\ WellFormed(t) /\ AllResolve(t)) =>
             /\ \A i \in PrevIndices(positions, t) :
                  \A j \in PrevIndices(positions', t) : i <= j
             /\ (call.arg > lastArrival(t) /\ ~Shown(positions, t)) => ~Shown(positions', t)]_vars

\* A well-formed three-stop trip that has left its first stop and reached
\* its second.
C23_Witness ==
    /\ Ticked
    /\ \E t \in Active :
         /\ Len(Schedule(t)) = 3 /\ WellFormed(t) /\ AllResolve(t)
         /\ firstDeparture(t) < arrival(t, 2)
         /\ arrival(t, 2) <= nowSeconds /\ nowSeconds < lastArrival(t)
         /\ PrevIndices(positions, t) = {2}

LastEntryStatus(list, k, rule) ==
    LET deciding == {i \in 1..Len(list) :
                        /\ list[i].date = DateText(k)
                        /\ list[i].exception_type \in {"1", "2"}}
    IN IF deciding = {} THEN rule
       ELSE list[CHOOSE i \in deciding : \A j \in deciding : j <= i].exception_type = "1"
Without(list, i) == [j \in 1..(Len(list) - 1) |-> IF j < i THEN list[j] ELSE list[j + 1]]

\* C25: a service with several exception entries for the queried date has
\* the status of the last of them (ADDED then REMOVED inactive, REMOVED then
\* ADDED active), and an entry that repeats the one before it changes
\* nothing: the status is that of the list without the repetition.
C25_LastEntryDecides ==
    Resolved =>
      \A sid \in Services :
        /\ Cardinality(Deciding(sid, today)) >= 2 =>
             (ServiceOn(sid) <=>
                Exceptions(sid)[CHOOSE i \in Deciding(sid, today) :
                                   \A j \in Deciding(sid, today) : j <= i].exception_type = "1")
        /\ \A i \in 2..Len(Exceptions(sid)) :
             Exceptions(sid)[i] = Exceptions(sid)[i - 1] =>
               (ServiceOn(sid) <=>
                  LastEntryStatus(Without(Exceptions(sid), i), today, RuleMatches(sid, today)))

\* A service whose rule does not cover day 1, added then removed on day 1
\* and asked about on day 1: inactive.
C25_Witness ==
    /\ Resolved
    /\ today = 1
    /\ Exceptions("A") = <<CalendarDate("A", DateText(1), "1"), CalendarDate("A", DateText(1), "2")>>
    /\ ~ServiceOn("A")

====
